---------------------------- MODULE Spec2Model ----------------------------
(***************************************************************************)
(* tailr (src/src/lib.rs): the offset parser TakeValue::from_str, the      *)
(* start-index resolver get_start_index, the counter count_lines_bytes,    *)
(* the emitters print_lines / print_bytes and the per-file loop of run.    *)
(*                                                                         *)
(* Integers are modelled at a reduced width: i64 is the signed range of    *)
(* Bits bits and u64 the unsigned range of Bits bits, with the same        *)
(* wrapping, saturating and checked arithmetic as the 64-bit originals.    *)
(* Bytes are numbers 0..255, strings are sequences of one-character        *)
(* strings.                                                                *)
(***************************************************************************)
EXTENDS Integers, Sequences, FiniteSets, TLC

VARIABLES
    \* ---- run (lib.rs:52-72) ----
    files,      \* args.files: the file names, in command-line order
    fs,         \* the file system: per file, whether it exists and its bytes
    quiet,      \* args.quiet
    lines,      \* args.lines : TakeValue
    bytes,      \* args.bytes : Option<TakeValue>
    file_num,   \* the zero-based loop index of run
    pc,         \* where run stands: "open", "count", "print", "done"
    totals,     \* (total_lines, total_bytes) of the file being processed
    stdout,     \* the writes made to standard output, one entry per print!
    stderr,     \* the diagnostics written by eprintln!, one entry per call
    opened,     \* per file already reached: did File::open in run succeed
    result,     \* what run returned: "running", "Ok", "Err"
    \* ---- get_start_index (lib.rs:121-142) ----
    take_val, total, start,
    \* ---- TakeValue::from_str (lib.rs:32-46) ----
    s, parsed

runVars   == <<files, fs, quiet, lines, bytes, file_num, pc, totals, stdout,
               stderr, opened, result>>
indexVars == <<take_val, total, start>>
parseVars == <<s, parsed>>
vars      == <<runVars, indexVars, parseVars>>

-----------------------------------------------------------------------------
(* Bounds *)

Bits     == 5   \* modelled width of i64 / u64
MaxStr   == 3   \* longest offset string given to from_str
MaxFiles == 3   \* longest file list given to run
MaxLen   == 3   \* longest file (in bytes) in a single-file run
MaxNum   == 4   \* largest |n| of the small counts tried in run

-----------------------------------------------------------------------------
(* Integer arithmetic of the code *)

RECURSIVE Pow2(_)
Pow2(n) == IF n = 0 THEN 1 ELSE 2 * Pow2(n - 1)

I64_MAX == Pow2(Bits - 1) - 1
I64_MIN == -Pow2(Bits - 1)
U64_MAX == Pow2(Bits) - 1
I64     == I64_MIN..I64_MAX
U64     == 0..U64_MAX

wrapping_neg_BitNot(x) == (-x) - 1

\* i64::wrapping_neg: two's-complement negation, i64::MIN maps to itself
wrapping_neg(x) == ((Pow2(Bits - 1) - x) % Pow2(Bits)) - Pow2(Bits - 1)

\* `x as u64`: reinterpretation of the two's-complement bits
as_u64(x) == x % Pow2(Bits)

\* i64::max
max(a, b) == IF a >= b THEN a ELSE b

\* i64::unsigned_abs: the magnitude as u64, defined for i64::MIN too
unsigned_abs(x) == IF x < 0 THEN -x ELSE x

\* u64::saturating_sub
saturating_sub(a, b) == IF a >= b THEN a - b ELSE 0

\* the plain `-` on u64: below zero it panics (debug) or wraps (release);
\* either way it is reported as the value Overflow
Overflow == -1
u64_sub(a, b) == IF a >= b THEN a - b ELSE Overflow

-----------------------------------------------------------------------------
(* TakeValue, Option, Result *)

PlusZero   == [tag |-> "PlusZero", num |-> 0]
TakeNum(n) == [tag |-> "TakeNum", num |-> n]
TakeValue  == {PlusZero} \cup {TakeNum(n) : n \in I64}

None    == [tag |-> "None", val |-> 0]
Some(v) == [tag |-> "Some", val |-> v]

\* Result<i64, ParseIntError> of str::parse::<i64>
ParseOk(n)  == [tag |-> "Ok", num |-> n, kind |-> "none"]
ParseErr(k) == [tag |-> "Err", num |-> 0, kind |-> k]

\* Result<TakeValue, ParseIntError> of TakeValue::from_str
Ok(tv)  == [tag |-> "Ok", val |-> tv, kind |-> "none"]
Err(k)  == [tag |-> "Err", val |-> PlusZero, kind |-> k]

\* a variable that holds no value yet
NoStart  == [tag |-> "NotYet", val |-> 0]
NoParse  == [tag |-> "NotYet", val |-> PlusZero, kind |-> "none"]

-----------------------------------------------------------------------------
(* get_start_index *)

get_start_index_NoZeroGuard(tv, tot) ==
    IF tv.tag = "PlusZero"
    THEN IF tot > 0 THEN Some(0) ELSE None
    ELSE IF tot = 0 \/ as_u64(max(tv.num, 0)) > tot
         THEN None
         ELSE Some(IF tv.num < 0
                   THEN saturating_sub(tot, unsigned_abs(tv.num))
                   ELSE u64_sub(as_u64(tv.num), 1))

get_start_index_NoBeyondEnd(tv, tot) ==
    IF tv.tag = "PlusZero"
    THEN IF tot > 0 THEN Some(0) ELSE None
    ELSE IF tv.num = 0 \/ tot = 0
         THEN None
         ELSE Some(IF tv.num < 0
                   THEN saturating_sub(tot, unsigned_abs(tv.num))
                   ELSE u64_sub(as_u64(tv.num), 1))

get_start_index_PlainSub(tv, tot) ==
    IF tv.tag = "PlusZero"
    THEN IF tot > 0 THEN Some(0) ELSE None
    ELSE IF tv.num = 0 \/ tot = 0 \/ as_u64(max(tv.num, 0)) > tot
         THEN None
         ELSE Some(IF tv.num < 0
                   THEN u64_sub(tot, unsigned_abs(tv.num))
                   ELSE u64_sub(as_u64(tv.num), 1))

get_start_index(tv, tot) ==
    IF tv.tag = "PlusZero"
    THEN IF tot > 0 THEN Some(0) ELSE None
    ELSE IF tv.num = 0 \/ tot = 0 \/ as_u64(max(tv.num, 0)) > tot
         THEN None
         ELSE Some(IF tv.num < 0
                   THEN saturating_sub(tot, unsigned_abs(tv.num))
                   ELSE u64_sub(as_u64(tv.num), 1))

-----------------------------------------------------------------------------
(* TakeValue::from_str *)

Digits == <<"0", "1", "2", "3", "4", "5", "6", "7", "8", "9">>
Chars  == {Digits[i] : i \in 1..10} \cup {"+", "-", ".", "f"}

IsDigit(c)  == \E i \in 1..10 : Digits[i] = c
DigitVal(c) == (CHOOSE i \in 1..10 : Digits[i] = c) - 1

\* str::starts_with for a set of characters
starts_with(str, cs) == Len(str) > 0 /\ str[1] \in cs

\* the digit loop of str::parse::<i64>: checked_mul(10), then checked_add
\* (positive) or checked_sub (negative) of each digit, left to right
RECURSIVE parse_digits(_, _, _, _)
parse_digits(str, i, acc, positive) ==
    IF i > Len(str) THEN ParseOk(acc)
    ELSE IF ~IsDigit(str[i]) THEN ParseErr("InvalidDigit")
    ELSE LET mul == acc * 10
             nxt == IF positive THEN mul + DigitVal(str[i])
                                ELSE mul - DigitVal(str[i])
         IN  IF mul > I64_MAX \/ nxt > I64_MAX THEN ParseErr("PosOverflow")
             ELSE IF mul < I64_MIN \/ nxt < I64_MIN THEN ParseErr("NegOverflow")
             ELSE parse_digits(str, i + 1, nxt, positive)

\* str::parse::<i64>: an optional sign, then at least one digit
parse_i64(str) ==
    IF Len(str) = 0 THEN ParseErr("Empty")
    ELSE IF Len(str) = 1 /\ str[1] \in {"+", "-"} THEN ParseErr("InvalidDigit")
    ELSE IF str[1] = "+" THEN parse_digits(str, 2, 0, TRUE)
    ELSE IF str[1] = "-" THEN parse_digits(str, 2, 0, FALSE)
    ELSE parse_digits(str, 1, 0, TRUE)

\* Result::map(i64::wrapping_neg)
map_wrapping_neg(r) == IF r.tag = "Ok" THEN ParseOk(wrapping_neg(r.num)) ELSE r

\* lines 36-39: the number, or the error that `?` returns
from_str_num(str) ==
    IF starts_with(str, {"+", "-"})
    THEN parse_i64(str)
    ELSE map_wrapping_neg(parse_i64(str))

from_str_NoNegate(str) ==
    LET r == parse_i64(str)
    IN  IF r.tag = "Err" THEN Err(r.kind)
        ELSE IF r.num = 0 /\ starts_with(str, {"+"}) THEN Ok(PlusZero)
        ELSE Ok(TakeNum(r.num))

from_str_AnyZero(str) ==
    LET r == from_str_num(str)
    IN  IF r.tag = "Err" THEN Err(r.kind)
        ELSE IF r.num = 0 /\ starts_with(str, {"+", "-"}) THEN Ok(PlusZero)
        ELSE Ok(TakeNum(r.num))

from_str_NoPlusZero(str) ==
    LET r == from_str_num(str)
    IN  IF r.tag = "Err" THEN Err(r.kind) ELSE Ok(TakeNum(r.num))

from_str_ErrIsZero(str) ==
    LET r == from_str_num(str)
    IN  IF r.tag = "Err" THEN Ok(TakeNum(0))
        ELSE IF r.num = 0 /\ starts_with(str, {"+"}) THEN Ok(PlusZero)
        ELSE Ok(TakeNum(r.num))

from_str(str) ==
    LET r == from_str_num(str)
    IN  IF r.tag = "Err" THEN Err(r.kind)
        ELSE IF r.num = 0 /\ starts_with(str, {"+"}) THEN Ok(PlusZero)
        ELSE Ok(TakeNum(r.num))

\* i64::to_string of a magnitude (tests, lines 222-236): decimal digits
RECURSIVE to_decimal(_)
to_decimal(m) ==
    IF m < 10 THEN <<Digits[m + 1]>>
    ELSE Append(to_decimal(m \div 10), Digits[(m % 10) + 1])

\* format!("{:+}", n): the decimal text with its sign always written
signed_decimal(n) ==
    IF n < 0 THEN <<"-">> \o to_decimal(-n) ELSE <<"+">> \o to_decimal(n)

-----------------------------------------------------------------------------
(* Values the variables of the other specifications rest at *)

IdleRun ==
    /\ files = <<>> /\ fs = <<>> /\ quiet = FALSE
    /\ lines = PlusZero /\ bytes = [tag |-> "None", val |-> PlusZero]
    /\ file_num = 0 /\ pc = "idle" /\ totals = <<0, 0>>
    /\ stdout = <<>> /\ stderr = <<>> /\ opened = <<>> /\ result = "idle"

IdleIndex == take_val = PlusZero /\ total = 0 /\ start = NoStart

IdleParse == s = <<>> /\ parsed = NoParse

-----------------------------------------------------------------------------
(* Files, count_lines_bytes, print_lines, print_bytes *)

\* b'\n', the delimiter given to read_until
LF == 10

\* the bytes files are made of: the line terminator, an ASCII letter and
\* 0xFF, a byte that occurs in no valid UTF-8 text
Bytes == {LF, 97, 255}

\* Option<TakeValue> of args.bytes
NoTake       == [tag |-> "None", val |-> PlusZero]
SomeTake(tv) == [tag |-> "Some", val |-> tv]

\* BufRead::read_until(b'\n', buf) at byte offset pos (zero-based): the
\* number of bytes read, up to and including the next LF or up to the end
RECURSIVE read_until(_, _)
read_until(data, pos) ==
    IF pos >= Len(data) THEN 0
    ELSE IF data[pos + 1] = LF THEN 1
    ELSE 1 + read_until(data, pos + 1)

\* the loop of count_lines_bytes (lines 79-87)
RECURSIVE count_loop(_, _, _, _)
count_loop(data, pos, num_lines, num_bytes) ==
    LET bytes_read == read_until(data, pos)
    IN  IF bytes_read = 0 THEN <<num_lines, num_bytes>>
        ELSE count_loop(data, pos + bytes_read, num_lines + 1, num_bytes + bytes_read)

count_lines_bytes_TerminatedOnly(data) ==
    <<Cardinality({i \in 1..Len(data) : data[i] = LF}), Len(data)>>

count_lines_bytes(data) == count_loop(data, 0, 0, 0)

\* String::from_utf8_lossy on the bytes of Bytes: an ASCII byte is kept, a
\* byte that cannot occur in UTF-8 becomes U+FFFD, encoded EF BF BD
RECURSIVE from_utf8_lossy(_)
from_utf8_lossy(buf) ==
    IF buf = <<>> THEN <<>>
    ELSE (IF Head(buf) < 128 THEN <<Head(buf)>> ELSE <<239, 191, 189>>)
         \o from_utf8_lossy(Tail(buf))

\* one print! of file content; name tells which file the bytes came from
DataWrite(name, text) ==
    [kind |-> "data", lead |-> <<>>, name |-> name, data |-> text]

\* the println! of line 59: lead is the "\n" written before the header
HeaderWrite(name, lead) ==
    [kind |-> "header", lead |-> lead, name |-> name, data |-> <<>>]

\* the loop of print_lines (lines 108-116); ok_reads is the number of
\* read_until calls that succeed before one fails. Returns what was
\* printed and whether the loop ended without a read error.
RECURSIVE print_lines_loop(_, _, _, _, _, _)
print_lines_loop(name, data, pos, line_num, start_line, ok_reads) ==
    IF line_num = ok_reads THEN [out |-> <<>>, ok |-> FALSE]
    ELSE LET n == read_until(data, pos)
         IN  IF n = 0 THEN [out |-> <<>>, ok |-> TRUE]
             ELSE LET rest == print_lines_loop(name, data, pos + n, line_num + 1,
                                               start_line, ok_reads)
                      buf  == SubSeq(data, pos + 1, pos + n)
                  IN  IF line_num >= start_line
                      THEN [out |-> <<DataWrite(name, from_utf8_lossy(buf))>> \o rest.out,
                            ok  |-> rest.ok]
                      ELSE rest

print_lines_OffByOne(name, data, num_lines, total_lines, ok_reads) ==
    LET st == get_start_index(num_lines, total_lines)
    IN  IF st.tag = "Some"
        THEN print_lines_loop(name, data, 0, 0, st.val + 1, ok_reads)
        ELSE [out |-> <<>>, ok |-> TRUE]

\* print_lines (lines 106-119)
print_lines(name, data, num_lines, total_lines, ok_reads) ==
    LET st == get_start_index(num_lines, total_lines)
    IN  IF st.tag = "Some"
        THEN print_lines_loop(name, data, 0, 0, st.val, ok_reads)
        ELSE [out |-> <<>>, ok |-> TRUE]

\* print_bytes (lines 91-104) when seek and read_to_end succeed
print_bytes(name, data, num_bytes, total_bytes) ==
    LET st == get_start_index(num_bytes, total_bytes)
    IN  IF st.tag = "Some"
        THEN LET buf == SubSeq(data, st.val + 1, Len(data))
             IN  IF buf # <<>> THEN <<DataWrite(name, from_utf8_lossy(buf))>>
                 ELSE <<>>
        ELSE <<>>

-----------------------------------------------------------------------------
(* run *)

num_files == Len(files)
filename  == files[file_num + 1]
file      == fs[file_num + 1]

header_wanted_NoCount == ~quiet

\* line 58
header_wanted == ~quiet /\ num_files > 1

\* line 59: if file_num > 0 { "\n" } else { "" }
header_lead == IF file_num > 0 THEN <<LF>> ELSE <<>>

\* the end of one iteration of the for loop: the next file, or Ok(())
NextFile ==
    /\ file_num' = file_num + 1
    /\ pc' = IF file_num + 1 < num_files THEN "open" ELSE "done"
    /\ result' = IF file_num + 1 < num_files THEN "running" ELSE "Ok"

\* lines 55-56: File::open fails; the diagnostic, then the next file
RunOpenErr ==
    /\ pc = "open" /\ ~file.exists
    /\ stderr' = Append(stderr, [name |-> filename])
    /\ opened' = Append(opened, FALSE)
    /\ NextFile
    /\ UNCHANGED <<files, fs, quiet, lines, bytes, totals, stdout, indexVars, parseVars>>

\* lines 55, 57-60: File::open succeeds; the header when one is wanted
RunOpenOk ==
    /\ pc = "open" /\ file.exists
    /\ stdout' = IF header_wanted
                 THEN Append(stdout, HeaderWrite(filename, header_lead))
                 ELSE stdout
    /\ opened' = Append(opened, TRUE)
    /\ pc' = "count"
    /\ UNCHANGED <<files, fs, quiet, lines, bytes, file_num, totals, stderr, result,
                   indexVars, parseVars>>

\* the environment: the file is removed between the File::open of line 55
\* and the File::open of line 75; the handle of line 55 still reads its bytes
Unlink ==
    /\ pc = "count" /\ file.exists
    /\ fs' = [fs EXCEPT ![file_num + 1].exists = FALSE]
    /\ UNCHANGED <<files, quiet, lines, bytes, file_num, pc, totals, stdout, stderr,
                   opened, result, indexVars, parseVars>>

\* lines 61, 75: File::open in count_lines_bytes fails; `?` returns the error
CountOpenErr ==
    /\ pc = "count" /\ ~file.exists
    /\ pc' = "done" /\ result' = "Err(open)"
    /\ UNCHANGED <<files, fs, quiet, lines, bytes, file_num, totals, stdout, stderr,
                   opened, indexVars, parseVars>>

\* lines 61, 75-88: count_lines_bytes returns the totals
CountLinesBytes ==
    /\ pc = "count" /\ file.exists
    /\ totals' = count_lines_bytes(file.data)
    /\ pc' = "print"
    /\ UNCHANGED <<files, fs, quiet, lines, bytes, file_num, stdout, stderr, opened,
                   result, indexVars, parseVars>>

\* line 80: a read_until of count_lines_bytes fails; `?` returns the error
CountReadErr ==
    /\ pc = "count" /\ file.exists
    /\ pc' = "done" /\ result' = "Err(read)"
    /\ UNCHANGED <<files, fs, quiet, lines, bytes, file_num, totals, stdout, stderr,
                   opened, indexVars, parseVars>>

\* lines 63-64: print_bytes returns Ok
PrintBytes ==
    /\ pc = "print" /\ bytes.tag = "Some"
    /\ stdout' = stdout \o print_bytes(filename, file.data, bytes.val, totals[2])
    /\ NextFile
    /\ UNCHANGED <<files, fs, quiet, lines, bytes, totals, stderr, opened,
                   indexVars, parseVars>>

\* lines 96, 98: the seek or the read_to_end of print_bytes fails
PrintBytesErr ==
    /\ pc = "print" /\ bytes.tag = "Some"
    /\ get_start_index(bytes.val, totals[2]).tag = "Some"
    /\ pc' = "done" /\ result' = "Err(read)"
    /\ UNCHANGED <<files, fs, quiet, lines, bytes, file_num, totals, stdout, stderr,
                   opened, indexVars, parseVars>>

\* lines 65-66: print_lines returns Ok
PrintLines ==
    /\ pc = "print" /\ bytes.tag = "None"
    /\ LET r == print_lines(filename, file.data, lines, totals[1], Len(file.data) + 1)
       IN  stdout' = stdout \o r.out
    /\ NextFile
    /\ UNCHANGED <<files, fs, quiet, lines, bytes, totals, stderr, opened,
                   indexVars, parseVars>>

\* line 110: a read_until of print_lines fails after ok_reads lines were
\* read; what was printed so far stays printed
PrintLinesErr ==
    /\ pc = "print" /\ bytes.tag = "None"
    /\ \E ok_reads \in 0..totals[1] :
         LET r == print_lines(filename, file.data, lines, totals[1], ok_reads)
         IN  /\ ~r.ok
             /\ stdout' = stdout \o r.out
    /\ pc' = "done" /\ result' = "Err(read)"
    /\ UNCHANGED <<files, fs, quiet, lines, bytes, file_num, totals, stderr,
                   opened, indexVars, parseVars>>

\* the byte strings of at most n bytes
BytesUpTo(n) == UNION {[1..k -> Bytes] : k \in 0..n}

\* the files of a run over several files: empty, one terminated line, and
\* two lines of which the last is unterminated and not UTF-8
SampleFiles == {<<>>, <<97, LF>>, <<97, LF, 255>>}

FileStates(n) ==
    {[exists |-> FALSE, data |-> <<>>]}
    \cup {[exists |-> TRUE, data |-> d] :
            d \in IF n = 1 THEN BytesUpTo(MaxLen) ELSE SampleFiles}

\* #[arg(default_value = "10")] of lines (line 16)
default_lines == from_str(<<"1", "0">>).val

RunTakeValues ==
    {PlusZero} \cup {TakeNum(n) : n \in (-MaxNum..MaxNum) \cup {I64_MIN, I64_MAX}}

Init ==
    /\ \E n \in 1..MaxFiles :
         /\ files = [i \in 1..n |-> i]
         /\ fs \in [1..n -> FileStates(n)]
    /\ quiet \in BOOLEAN
    /\ \/ lines \in RunTakeValues \cup {default_lines} /\ bytes = NoTake
       \/ lines = default_lines /\ bytes \in {SomeTake(tv) : tv \in RunTakeValues}
    /\ file_num = 0 /\ pc = "open" /\ totals = <<0, 0>>
    /\ stdout = <<>> /\ stderr = <<>> /\ opened = <<>> /\ result = "running"
    /\ IdleIndex /\ IdleParse

Next ==
    \/ RunOpenErr
    \/ RunOpenOk
    \/ Unlink
    \/ CountOpenErr
    \/ CountLinesBytes
    \/ CountReadErr
    \/ PrintBytes
    \/ PrintBytesErr
    \/ PrintLines
    \/ PrintLinesErr

Spec == Init /\ [][Next]_vars

-----------------------------------------------------------------------------
(* Specification of get_start_index: any TakeValue, any total *)

InitIndex ==
    /\ take_val \in TakeValue
    /\ total \in U64
    /\ start = NoStart
    /\ IdleRun /\ IdleParse

GetStartIndex ==
    /\ start = NoStart
    /\ start' = get_start_index(take_val, total)
    /\ UNCHANGED <<take_val, total, runVars, parseVars>>

NextIndex == GetStartIndex

SpecIndex == InitIndex /\ [][NextIndex]_vars

-----------------------------------------------------------------------------
(* Specification of TakeValue::from_str: any string of up to MaxStr chars *)

Strings == UNION {[1..k -> Chars] : k \in 0..MaxStr}

InitParse ==
    /\ s \in Strings
    /\ parsed = NoParse
    /\ IdleRun /\ IdleIndex

FromStr ==
    /\ parsed = NoParse
    /\ parsed' = from_str(s)
    /\ UNCHANGED <<s, runVars, indexVars>>

NextParse == FromStr

SpecParse == InitParse /\ [][NextParse]_vars

-----------------------------------------------------------------------------
(* Specification of the resolver together with the emitters that use it:
   every call of get_start_index, and every run *)

InitEmit == Init \/ InitIndex

NextEmit == Next \/ (pc = "idle" /\ NextIndex)

SpecEmit == InitEmit /\ [][NextEmit]_vars

-----------------------------------------------------------------------------
(* Claims about run, under Spec *)

\* the lines of a file, told without the read loop: a line ends at each LF
\* and at the last byte
LineEnds(data)   == {i \in 1..Len(data) : data[i] = LF \/ i = Len(data)}
NumLines(data)   == Cardinality(LineEnds(data))
LineEnd(data, k) ==
    CHOOSE e \in LineEnds(data) : Cardinality({x \in LineEnds(data) : x < e}) = k
\* the line with zero-based index k
LineOf(data, k) ==
    SubSeq(data, IF k = 0 THEN 1 ELSE LineEnd(data, k - 1) + 1, LineEnd(data, k))

\* a line-mode run over one file that was opened, and that returned Ok
LineRunDone ==
    /\ num_files = 1 /\ bytes.tag = "None"
    /\ pc = "done" /\ result = "Ok" /\ opened = <<TRUE>>

\* a line as written: its own bytes, or what from_utf8_lossy makes of them
Render(lossy, buf) == IF lossy THEN from_utf8_lossy(buf) ELSE buf

\* one write per line from..T-1 of the only file
LinesFrom(from, lossy) ==
    [k \in 1..(NumLines(fs[1].data) - from) |->
        DataWrite(files[1], Render(lossy, LineOf(fs[1].data, from + k - 1)))]

\* what C1 says of the output, with the lines verbatim or lossy
C1_Statement(lossy) ==
    LineRunDone =>
        LET T  == NumLines(fs[1].data)
            st == get_start_index(lines, T)
        IN  /\ st.tag = "Some" => stdout = LinesFrom(st.val, lossy)
            /\ (lines.tag = "TakeNum" /\ lines.num < 0 /\ T > 0) =>
                    LET m == IF -lines.num < T THEN -lines.num ELSE T
                    IN  stdout = LinesFrom(T - m, lossy)
            /\ lines = TakeNum(1) => stdout = LinesFrom(0, lossy)

\* C1 as stated: whenever get_start_index returns Some(start), print_lines
\* writes exactly the lines start..T-1 of the file, in file order and nothing
\* before them; for TakeNum(n), n < 0, T > 0, the last min(|n|, T) lines; for
\* '+1' all T lines.
C1_Original == C1_Statement(FALSE)

\* C1 amended: the same lines, in the same order and nothing before them,
\* each written as String::from_utf8_lossy renders it (byte for byte when
\* the line is valid UTF-8).
C1_LinesFromStart == C1_Statement(TRUE)

C1_Witness ==
    /\ LineRunDone
    /\ fs[1].data = <<97, LF, 255>> /\ lines = TakeNum(-1)
    /\ stdout = <<DataWrite(files[1], <<239, 191, 189>>)>>

IsHeader(j) == stdout[j].kind = "header"

\* C2: in a run over more than one file without quiet, whichever files fail
\* to open, the first header written is not preceded by a blank line and
\* every later header is preceded by exactly one.
C2_HeaderBlankLines ==
    (num_files > 1 /\ ~quiet) =>
        \A j \in 1..Len(stdout) :
            IsHeader(j) =>
                stdout[j].lead = IF \E k \in 1..(j - 1) : IsHeader(k)
                                 THEN <<LF>> ELSE <<>>

HeaderCount(name) ==
    Cardinality({j \in 1..Len(stdout) : IsHeader(j) /\ stdout[j].name = name})

\* C3: a header is written for a file if and only if File::open in run
\* succeeded for it, there is more than one file and quiet is not set (an
\* empty file gets it too), and it is written before any content of the file.
C3_HeaderIff ==
    /\ \A i \in 1..num_files :
          HeaderCount(files[i]) =
              IF i <= Len(opened) /\ opened[i] /\ num_files > 1 /\ ~quiet
              THEN 1 ELSE 0
    /\ \A j \in 1..Len(stdout) :
          (stdout[j].kind = "data" /\ num_files > 1 /\ ~quiet) =>
              \E k \in 1..(j - 1) : IsHeader(k) /\ stdout[k].name = stdout[j].name

C3_Witness ==
    /\ pc = "done" /\ result = "Ok" /\ num_files = 3
    /\ fs[2].exists /\ fs[2].data = <<>>
    /\ HeaderCount(files[2]) = 1
    /\ ~fs[1].exists /\ HeaderCount(files[1]) = 0

\* C4: a failure to open a file, at the File::open of run or at the one of
\* count_lines_bytes, is not fatal: run returns no error because of it,
\* writes a diagnostic naming the file and nothing to stdout for it, and
\* goes on to every later file.
C4_OpenFailureNonFatal ==
    /\ result # "Err(open)"
    /\ \A i \in 1..Len(opened) :
          ~opened[i] =>
              /\ \E d \in 1..Len(stderr) : stderr[d].name = files[i]
              /\ \A j \in 1..Len(stdout) : stdout[j].name # files[i]
    /\ (pc = "done" /\ result = "Ok") => Len(opened) = num_files

-----------------------------------------------------------------------------
(* Claim about count_lines_bytes, under Spec *)

\* C13: for every file content count_lines_bytes returns (L, B) with B the
\* number of bytes of the file and L the number of LF bytes, plus one when
\* the file is not empty and does not end with LF; an empty file gives
\* (0, 0), and L = 0 exactly when B = 0.
C13_CountLinesBytes ==
    pc = "print" =>
        LET data == file.data
            nlf  == Cardinality({i \in 1..Len(data) : data[i] = LF})
            part == IF Len(data) > 0 /\ data[Len(data)] # LF THEN 1 ELSE 0
        IN  /\ totals = <<nlf + part, Len(data)>>
            /\ data = <<>> => totals = <<0, 0>>
            /\ totals[1] = 0 <=> totals[2] = 0

C13_Witness ==
    /\ pc = "print" /\ num_files = 1
    /\ file.data = <<LF, 97, 255>>
    /\ totals = <<2, 3>>

-----------------------------------------------------------------------------
(* Claim about get_start_index and the emitters, under SpecEmit *)

\* a run over one file that was opened, and that returned Ok
OneFileRunDone ==
    /\ num_files = 1 /\ pc = "done" /\ result = "Ok" /\ opened = <<TRUE>>

\* the TakeValue and the total the emitter of that run resolved, and the index
EmitTake  == IF bytes.tag = "Some" THEN bytes.val ELSE lines
EmitTotal == IF bytes.tag = "Some" THEN Len(fs[1].data) ELSE NumLines(fs[1].data)
EmitStart == get_start_index(EmitTake, EmitTotal)

\* Some(i) implies i < total: for the call made under SpecIndex, and for the
\* call of the emitter; in line mode at least one line is then written
C14_IndexInFile ==
    /\ (start # NoStart /\ start.tag = "Some") => start.val < total
    /\ (OneFileRunDone /\ EmitStart.tag = "Some") =>
          /\ EmitStart.val < EmitTotal
          /\ bytes.tag = "None" =>
                /\ Len(stdout) >= 1
                /\ \A j \in 1..Len(stdout) : stdout[j].kind = "data"

\* C14 as stated: if get_start_index returns Some(i) then i < total; hence
\* an emitter that runs writes at least one line (line mode) or exactly
\* total - i >= 1 bytes (byte mode), the seek landing before end-of-file.
C14_Original ==
    /\ C14_IndexInFile
    /\ (OneFileRunDone /\ EmitStart.tag = "Some" /\ bytes.tag = "Some") =>
          /\ Len(stdout) = 1
          /\ Len(stdout[1].data) = EmitTotal - EmitStart.val
          /\ EmitTotal - EmitStart.val >= 1

\* C14 amended: the same, except that in byte mode what is written is what
\* String::from_utf8_lossy makes of the last total - i >= 1 bytes of the
\* file (those bytes themselves, total - i of them, when they are valid
\* UTF-8).
C14_StartBeforeEnd ==
    /\ C14_IndexInFile
    /\ (OneFileRunDone /\ EmitStart.tag = "Some" /\ bytes.tag = "Some") =>
          /\ stdout = <<DataWrite(files[1],
                          from_utf8_lossy(SubSeq(fs[1].data, EmitStart.val + 1, EmitTotal)))>>
          /\ EmitTotal - EmitStart.val >= 1

C14_Witness ==
    /\ OneFileRunDone
    /\ bytes = SomeTake(TakeNum(-2)) /\ fs[1].data = <<97, 255, LF>>
    /\ stdout = <<DataWrite(files[1], <<239, 191, 189, LF>>)>>

-----------------------------------------------------------------------------
(* Claims about get_start_index, under SpecIndex *)

\* C5: for every n > 0 and every total > 0, get_start_index(TakeNum(n),
\* total) is Some(n - 1) when n <= total and None when n > total (n =
\* i64::MAX included), and no subtraction in it overflows.
C5_PositiveOffset ==
    (start # NoStart /\ take_val.tag = "TakeNum" /\ take_val.num > 0 /\ total > 0)
        => /\ take_val.num <= total => start = Some(take_val.num - 1)
           /\ take_val.num > total  => start = None
           /\ start.val # Overflow

C5_Witness ==
    /\ take_val = TakeNum(I64_MAX) /\ total = I64_MAX + 1
    /\ start = Some(I64_MAX - 1)

\* C6 as stated: for every n < 0 and every total >= 0 the result is
\* Some(max(0, total - |n|)).
C6_Original ==
    (start # NoStart /\ take_val.tag = "TakeNum" /\ take_val.num < 0)
        => start = Some(IF total + take_val.num > 0 THEN total + take_val.num ELSE 0)

\* C6 amended: for every n < 0 (i64::MIN included) the result is
\* Some(max(0, total - |n|)) for every total > 0, and None for total = 0.
C6_NegativeOffset ==
    (start # NoStart /\ take_val.tag = "TakeNum" /\ take_val.num < 0)
        => /\ total > 0 =>
                start = Some(IF total + take_val.num > 0
                             THEN total + take_val.num ELSE 0)
           /\ total = 0 => start = None

C6_Witness ==
    /\ take_val = TakeNum(I64_MIN) /\ total = 1
    /\ start = Some(0)

\* C7: TakeNum(0) resolves to None for every total k >= 0, while PlusZero
\* resolves to Some(0) for every k > 0 and to None for k = 0.
C7_ZeroVersusPlusZero ==
    start # NoStart =>
        /\ take_val = TakeNum(0) => start = None
        /\ (take_val = PlusZero /\ total > 0) => start = Some(0)
        /\ (take_val = PlusZero /\ total = 0) => start = None

C7_Witness ==
    /\ take_val = PlusZero /\ total = U64_MAX /\ start = Some(0)

-----------------------------------------------------------------------------
(* Claims about TakeValue::from_str, under SpecParse *)

\* C8 as stated: for every i64 n, 0 included, the text of n with an explicit
\* sign parses to TakeNum(n).
C8_Original ==
    parsed # NoParse =>
        \A n \in I64 : s = signed_decimal(n) => parsed = Ok(TakeNum(n))

\* C8 amended: for every i64 n other than 0 the text of n with an explicit
\* sign parses to TakeNum(n); for 0, "-0" parses to TakeNum(0) and "+0"
\* parses to PlusZero.
C8_SignedRoundTrip ==
    parsed # NoParse =>
        /\ \A n \in I64 \ {0} : s = signed_decimal(n) => parsed = Ok(TakeNum(n))
        /\ s = <<"-", "0">> => parsed = Ok(TakeNum(0))
        /\ s = <<"+", "0">> => parsed = Ok(PlusZero)

C8_Witness ==
    /\ s = signed_decimal(I64_MIN)
    /\ parsed = Ok(TakeNum(I64_MIN))

\* C9: for every magnitude m in 0..=i64::MAX the bare digits of m parse to
\* the same TakeValue as "-" followed by those digits, namely TakeNum(-m).
C9_BareIsNegative ==
    parsed # NoParse =>
        \A m \in 0..I64_MAX :
            /\ s = to_decimal(m) => parsed = Ok(TakeNum(-m))
            /\ s = <<"-">> \o to_decimal(m) => parsed = Ok(TakeNum(-m))

C9_Witness ==
    /\ s = to_decimal(3)
    /\ parsed = Ok(TakeNum(-3))

\* C10 as stated: the bare digits of i64::MAX parse to TakeNum(v) with v one
\* less than i64::MIN (taken literally, or wrapped into the i64 range).
C10_Original ==
    (parsed # NoParse /\ s = to_decimal(I64_MAX))
        => \/ parsed = Ok(TakeNum(I64_MIN - 1))
           \/ parsed = Ok(TakeNum(I64_MAX))

\* C10 amended: the bare digits of i64::MAX parse successfully to
\* TakeNum(i64::MIN + 1), one more than the minimum: the negation of
\* i64::MAX, which does not wrap.
C10_MaxUnsigned ==
    (parsed # NoParse /\ s = to_decimal(I64_MAX))
        => parsed = Ok(TakeNum(I64_MIN + 1))

C10_Witness ==
    /\ s = to_decimal(I64_MAX)
    /\ parsed.tag = "Ok" /\ parsed.val.num = -I64_MAX

\* C11: from_str returns PlusZero exactly when the string starts with '+'
\* and its value is zero ("+0", "+00"); every other string that parses gives
\* a TakeNum, "0" and "-0" give TakeNum(0), and no unsigned or '-'-signed
\* string gives PlusZero.
C11_PlusZeroExactly ==
    parsed # NoParse =>
        /\ parsed = Ok(PlusZero) <=>
                /\ Len(s) >= 2 /\ s[1] = "+"
                /\ \A i \in 2..Len(s) : s[i] = "0"
        /\ (parsed.tag = "Ok" /\ parsed # Ok(PlusZero)) => parsed.val.tag = "TakeNum"
        /\ s \in {<<"0">>, <<"-", "0">>} => parsed = Ok(TakeNum(0))
        /\ (Len(s) = 0 \/ s[1] # "+") => parsed # Ok(PlusZero)

C11_Witness ==
    /\ s = <<"+", "0", "0">>
    /\ parsed = Ok(PlusZero)

\* the characters after the optional leading sign
Body(str) == IF starts_with(str, {"+", "-"}) THEN Tail(str) ELSE str

\* an optional sign followed by one or more ASCII digits
WellFormed(str) ==
    /\ Len(Body(str)) >= 1
    /\ \A i \in 1..Len(Body(str)) : IsDigit(Body(str)[i])

\* the number a string of digits writes
RECURSIVE DecValue(_)
DecValue(digs) ==
    IF digs = <<>> THEN 0
    ELSE 10 * DecValue(SubSeq(digs, 1, Len(digs) - 1)) + DigitVal(digs[Len(digs)])

\* the signed number that sign and digits write
SignedValue(str, digs) == IF starts_with(str, {"-"}) THEN -DecValue(digs) ELSE DecValue(digs)

\* the digits of the body that come before its first non-digit
DigitPrefix(str) ==
    LET b == Body(str)
        k == IF \E i \in 1..Len(b) : ~IsDigit(b[i])
             THEN (CHOOSE i \in 1..Len(b) :
                      ~IsDigit(b[i]) /\ \A j \in 1..(i - 1) : IsDigit(b[j])) - 1
             ELSE Len(b)
    IN  SubSeq(b, 1, k)

\* the error std reports for a number outside the i64 range
RangeError(v) == IF v > I64_MAX THEN Err("PosOverflow") ELSE Err("NegOverflow")

\* C12 as stated: InvalidDigit for every string with a character other than
\* digits after a single optional sign, InvalidDigit too for every string
\* whose value is outside the i64 range, success for every string of an
\* optional sign and digits whose value is in the range.
C12_Original ==
    (parsed # NoParse /\ s # <<>>) =>
        /\ ~WellFormed(s) => parsed = Err("InvalidDigit")
        /\ (WellFormed(s) /\ SignedValue(s, Body(s)) \notin I64)
               => parsed = Err("InvalidDigit")
        /\ (WellFormed(s) /\ SignedValue(s, Body(s)) \in I64) => parsed.tag = "Ok"

\* C12 amended: a string of an optional sign and digits parses when its
\* value is in the i64 range and fails with PosOverflow or NegOverflow, not
\* InvalidDigit, when it is above or below it; a string with a character
\* other than digits after the optional sign, or with no digit after it,
\* fails with InvalidDigit unless the digits before that character already
\* leave the range, and then with PosOverflow or NegOverflow; the empty
\* string fails with Empty.
C12_ParseErrors ==
    parsed # NoParse =>
        /\ s = <<>> => parsed = Err("Empty")
        /\ (WellFormed(s) /\ SignedValue(s, Body(s)) \in I64) => parsed.tag = "Ok"
        /\ (WellFormed(s) /\ SignedValue(s, Body(s)) \notin I64)
               => parsed = RangeError(SignedValue(s, Body(s)))
        /\ (s # <<>> /\ ~WellFormed(s)) =>
               LET v == SignedValue(s, DigitPrefix(s))
               IN  parsed = IF v \in I64 THEN Err("InvalidDigit") ELSE RangeError(v)

C12_Witness ==
    /\ s = to_decimal(I64_MAX + 1)
    /\ parsed = Err("PosOverflow")

=============================================================================
